---- MODULE Spec2Model ----
(***************************************************************************)
(* A model of three units of the rna packages:                             *)
(*   - the transform pipeline (createPipeline / pipe / finalize with       *)
(*     loadSourcemap, transform and mergeSourcemaps),                      *)
(*   - the scoped SASS resolver (alternatives / nodeResolver),             *)
(*   - the esbuild emit plugin (emitFile / emitChunk / the emit-chunk      *)
(*     load hook).                                                         *)
(* Texts are sequences of tokens.  A token is either one character of      *)
(* interest ("SP", "NL" are whitespace) or a literal run of characters     *)
(* that the code matches as a whole ("//#", "sourceMappingURL=", "data:"). *)
(***************************************************************************)
EXTENDS Integers, Sequences, FiniteSets, TLC

VARIABLES
    phase,       \* pipeline life cycle: "none", "open", "threw", "final"
    pipeline,    \* the Pipeline object {contents, code, sourceMaps, target, loader}
    opts,        \* the TransformOptions passed unchanged to every step
    nsteps,      \* number of pipe() calls made so far
    hist,        \* per pipe() call: the code before it and the TransformResult it got
    result,      \* what finalize returned
    resolved,    \* per resolver instance: the list of already resolved paths
    fs,          \* the stylesheets that exist (what styleResolve can find)
    calls,       \* nodeResolver invocations, each with its position and locals
    emitSrc,     \* the import specifier built by emitFile / emitChunk
    emitOps,     \* number of emitFile / emitChunk applications
    emitLog,     \* the last emit helper applied, with its argument and result
    chunk        \* the last emit-chunk load: request, metafile, selected file

vars == <<phase, pipeline, opts, nsteps, hist, result,
          resolved, fs, calls, emitSrc, emitOps, emitLog, chunk>>

pipeVars == <<phase, pipeline, opts, nsteps, hist, result>>
resolverVars == <<resolved, fs, calls>>
emitVars == <<emitSrc, emitOps, emitLog, chunk>>

(***************************************************************************)
(* Bounds of the model.                                                    *)
(***************************************************************************)
MaxSteps == 2
MaxCalls == 2
MaxOutputs == 2
MaxEmitOps == 2

-----------------------------------------------------------------------------
(***************************************************************************)
(* Generic helpers on sequences.                                           *)
(***************************************************************************)
Last(s) == s[Len(s)]
Front(s) == SubSeq(s, 1, Len(s) - 1)
Range(s) == {s[i] : i \in 1..Len(s)}
Min(S) == CHOOSE x \in S : \A y \in S : x <= y

-----------------------------------------------------------------------------
(***************************************************************************)
(* Source maps.  A map is a record; `mappings` gives, for every position   *)
(* of the generated text, the position of the original text it comes from  *)
(* (0: no mapping).  NullMap stands for an absent (null/undefined) map.    *)
(***************************************************************************)
NullMap == [kind |-> "null", mappings |-> <<>>, file |-> <<>>, content |-> FALSE]
IsMap(m) == m.kind = "map"

\* The map stored in the file "ok.map" / encoded in a valid data URI payload.
InMap == [kind |-> "map", mappings |-> <<2, 3, 4, 5>>, file |-> <<"in">>, content |-> TRUE]

(***************************************************************************)
(* String contents as JSON.parse sees them: `b64` counts how many times    *)
(* the text was base64-encoded.  Only the raw text "{map}" is the JSON of  *)
(* a source map; a base64 text of an ASCII payload is never valid JSON     *)
(* (it starts with a letter A..f and is none of true/false/null).          *)
(***************************************************************************)
Raw(text) == [b64 |-> 0, text |-> text]
Base64Encode(text) == [b64 |-> 1, text |-> text]

parseSourcemap(content) ==
    IF content.b64 = 0 /\ content.text = <<"{map}">>
    THEN [ok |-> TRUE, val |-> InMap]
    ELSE [ok |-> FALSE, val |-> NullMap]

\* fs.promises.readFile of the map file referenced from the trailer.
readFile(mapUrl) ==
    IF mapUrl = <<"ok.map">> THEN [ok |-> TRUE, content |-> Raw(<<"{map}">>)]
    ELSE IF mapUrl = <<"bad.map">> THEN [ok |-> TRUE, content |-> Raw(<<"{oops">>)]
    ELSE [ok |-> FALSE, content |-> Raw(<<>>)]

-----------------------------------------------------------------------------
(***************************************************************************)
(* loadSourcemap: String.prototype.trimEnd and the split on                *)
(* /\n\/\/#\s*sourceMappingURL=/.                                          *)
(***************************************************************************)
WS == {"SP", "NL"}

\* trimEnd left out.
trimEndNone(s) == s

RECURSIVE trimEnd(_)
trimEnd(s) ==
    IF s = <<>> THEN s
    ELSE IF Last(s) \in WS THEN trimEnd(Front(s)) ELSE s

RECURSIVE SkipWS(_, _)
SkipWS(s, q) ==
    IF q <= Len(s) /\ s[q] \in WS THEN SkipWS(s, q + 1) ELSE q

\* Index of the last token of a match of the regex starting at p, or 0.
MatchEnd(s, p) ==
    IF p + 1 <= Len(s) /\ s[p] = "NL" /\ s[p + 1] = "//#"
    THEN LET q == SkipWS(s, p + 2)
         IN  IF q <= Len(s) /\ s[q] = "sourceMappingURL=" THEN q ELSE 0
    ELSE 0

FirstMatch(s) ==
    LET hits == {p \in 1..Len(s) : MatchEnd(s, p) # 0}
    IN  IF hits = {} THEN 0 ELSE Min(hits)

\* The first two pieces of s.split(regex): [code, mapUrl]; `has` is FALSE
\* when the second piece is undefined.
SplitTrailer(s) ==
    LET p == FirstMatch(s)
    IN  IF p = 0 THEN [code |-> s, has |-> FALSE, mapUrl |-> <<>>]
        ELSE LET rest == SubSeq(s, MatchEnd(s, p) + 1, Len(s))
                 p2 == FirstMatch(rest)
             IN  [code |-> SubSeq(s, 1, p - 1), has |-> TRUE,
                  mapUrl |-> IF p2 = 0 THEN rest ELSE SubSeq(rest, 1, p2 - 1)]

\* mapUrl.split(',')[1]: the part between the first and the second comma.
CommaPart(u) ==
    LET commas == {i \in 1..Len(u) : u[i] = ","}
    IN  IF commas = {} THEN [has |-> FALSE, text |-> <<>>]
        ELSE LET c1 == Min(commas)
                 later == {i \in commas : i > c1}
                 stop == IF later = {} THEN Len(u) + 1 ELSE Min(later)
             IN  [has |-> TRUE, text |-> SubSeq(u, c1 + 1, stop - 1)]

\* The body of the try block: "return" a map, "throw", or "fall" through.
LoadAttempt(mapUrl, filePath) ==
    IF mapUrl[1] = "data:"
    THEN LET part == CommaPart(mapUrl)
         IN  IF ~part.has THEN [kind |-> "throw", map |-> NullMap]
             ELSE LET parsed == parseSourcemap(Base64Encode(part.text))
                  IN  IF parsed.ok THEN [kind |-> "return", map |-> parsed.val]
                      ELSE [kind |-> "throw", map |-> NullMap]
    ELSE IF filePath # <<>>
    THEN LET file == readFile(mapUrl)
         IN  IF ~file.ok THEN [kind |-> "throw", map |-> NullMap]
             ELSE LET parsed == parseSourcemap(file.content)
                  IN  IF parsed.ok THEN [kind |-> "return", map |-> parsed.val]
                      ELSE [kind |-> "throw", map |-> NullMap]
    ELSE [kind |-> "fall", map |-> NullMap]

loadSourcemapNoCatch(contents, filePath) ==
    LET parts == SplitTrailer(trimEnd(contents))
        try == IF parts.has /\ parts.mapUrl # <<>>
               THEN LoadAttempt(parts.mapUrl, filePath)
               ELSE [kind |-> "fall", map |-> NullMap]
    IN  IF try.kind = "return"
        THEN [status |-> "ok", code |-> parts.code, map |-> try.map]
        ELSE IF try.kind = "throw"
        THEN [status |-> "throw", code |-> parts.code, map |-> NullMap]
        ELSE [status |-> "ok", code |-> parts.code, map |-> NullMap]

loadSourcemap(contents, filePath) ==
    LET parts == SplitTrailer(trimEnd(contents))
        try == IF parts.has /\ parts.mapUrl # <<>>
               THEN LoadAttempt(parts.mapUrl, filePath)
               ELSE [kind |-> "fall", map |-> NullMap]
    IN  IF try.kind = "return"
        THEN [status |-> "ok", code |-> parts.code, map |-> try.map]
        ELSE [status |-> "ok", code |-> parts.code, map |-> NullMap]

-----------------------------------------------------------------------------
(***************************************************************************)
(* transform: a MagicString over the current code.  A MagicString is kept  *)
(* as the sequence of its characters, each with the position of the        *)
(* original it stands for (0 for inserted text), which is what             *)
(* generateMap({hires: true}) reports.                                     *)
(***************************************************************************)
NoResult == [code |-> <<>>, map |-> NullMap, loader |-> "", target |-> ""]

MagicString(contents) ==
    [i \in 1..Len(contents) |-> [tok |-> contents[i], orig |-> i]]

toString(magic) == [i \in 1..Len(magic) |-> magic[i].tok]

generateMap(magic, options) ==
    [kind |-> "map", mappings |-> [i \in 1..Len(magic) |-> magic[i].orig],
     file |-> <<>>, content |-> options.sourcesContent]

\* What a callback does to the MagicString it is handed.
Edit(cb, magic) ==
    CASE cb.k = "prepend" -> <<[tok |-> "x", orig |-> 0]>> \o magic
      [] cb.k = "remove" -> IF magic = <<>> THEN magic ELSE Tail(magic)
      [] cb.k = "overwrite" ->
            IF magic = <<>> THEN magic
            ELSE <<[tok |-> "a", orig |-> 1]>> \o Tail(magic)
      [] OTHER -> magic

transform(contents, options, cb) ==
    LET magic == Edit(cb, MagicString(contents))
    IN  IF cb.k = "return" THEN cb.ret
        ELSE [code |-> toString(magic), map |-> generateMap(magic, options),
              loader |-> "", target |-> ""]

\* createTypeScriptTransform: esbuild.transform prints the code again (here:
\* with a closing ";") and reports the map of what it printed.
transpileTypescript(contents) ==
    [code |-> contents \o <<";">>,
     map |-> [kind |-> "map",
              mappings |-> [i \in 1..(Len(contents) + 1) |->
                                IF i <= Len(contents) THEN i ELSE 0],
              file |-> <<>>, content |-> TRUE],
     loader |-> "js", target |-> "es2020"]

\* The callbacks a caller may hand to pipe() in pipeline state p.
Callbacks(p) ==
    {[k |-> kind, ret |-> NoResult] :
        kind \in {"noop", "prepend", "remove", "overwrite"}}
    \cup
    {[k |-> "return", ret |-> r] : r \in
        { \* an explicit result that leaves the text as it is
          [code |-> p.code, map |-> InMap, loader |-> "", target |-> ""],
          \* an explicit result that restores the original contents
          [code |-> p.contents, map |-> InMap, loader |-> "", target |-> ""],
          \* an explicit result with new text and no map
          [code |-> <<"n">> \o p.code, map |-> NullMap, loader |-> "", target |-> ""],
          transpileTypescript(p.code) }}

-----------------------------------------------------------------------------
(***************************************************************************)
(* createPipeline, pipe.                                                   *)
(***************************************************************************)
NoPipeline ==
    [contents |-> <<>>, code |-> <<>>, sourceMaps |-> <<>>,
     target |-> "", loader |-> ""]

createPipeline(contents, source) ==
    LET loaded == loadSourcemap(contents, source)
        ext == IF source = <<>> THEN "" ELSE Last(source)
    IN  [status |-> loaded.status,
         pipeline |->
            [contents |-> contents,
             code |-> loaded.code,
             sourceMaps |-> IF IsMap(loaded.map) THEN <<loaded.map>> ELSE <<>>,
             target |-> IF ext \in {".ts", ".tsx"} THEN "typescript" ELSE "unknown",
             loader |-> IF ext = ".ts" THEN "ts" ELSE "tsx"]]

\* pipe() after the transform returned r, with the push made unconditional.
pipeAlwaysPush(p, r) ==
    [p EXCEPT !.sourceMaps = Append(p.sourceMaps, r.map),
              !.code = r.code,
              !.loader = IF r.loader # "" THEN r.loader ELSE @,
              !.target = IF r.target # "" THEN r.target ELSE @]

\* pipe() after the transform returned r.
pipe(p, r) ==
    [p EXCEPT !.sourceMaps = IF r.code # p.code THEN Append(@, r.map) ELSE @,
              !.code = IF r.code # p.code THEN r.code ELSE @,
              !.loader = IF r.loader # "" THEN r.loader ELSE @,
              !.target = IF r.target # "" THEN r.target ELSE @]

-----------------------------------------------------------------------------
(***************************************************************************)
(* mergeSourcemaps, inlineSourcemap, finalize.                             *)
(***************************************************************************)
\* SourceMapNode.extends: the original positions of `later` are looked up
\* in `earlier` (the map of the step before) and replaced by its originals.
Extends(later, earlier) ==
    [later EXCEPT
        !.mappings = [i \in 1..Len(later.mappings) |->
            LET j == later.mappings[i]
            IN  IF j \in 1..Len(earlier.mappings) THEN earlier.mappings[j] ELSE 0],
        !.content = earlier.content]

\* The reduce step with the two maps composed in the wrong order.
MergeStepSwapped(acc, map) ==
    IF IsMap(acc) THEN Extends(acc, map) ELSE map

\* One step of the reduce: addVLQMap(map), then extends(accumulated).
\* Stripping trailing ";" from the VLQ text drops empty trailing lines and
\* leaves every mapping as it is.
MergeStep(acc, map) ==
    IF IsMap(acc) THEN Extends(map, acc) ELSE map

RECURSIVE Reduce(_, _)
Reduce(acc, maps) ==
    IF maps = <<>> THEN acc ELSE Reduce(MergeStep(acc, Head(maps)), Tail(maps))

mergeSourcemaps(maps) == Reduce(NullMap, maps)

inlineSourcemap(code, map) ==
    code \o <<"NL", "//#", "SP", "sourceMappingURL=", "data:",
              "application/json;base64", ",", "B64{map}">>

FilterMaps(maps) == SelectSeq(maps, IsMap)

\* finalize with an off-by-one in the number of maps it asks for.
finalizeOneMap(p, o) ==
    IF Len(p.sourceMaps) < 1 \/ p.code = p.contents \/ o.sourcemap = "false"
    THEN [code |-> p.code, map |-> NullMap, loader |-> p.loader]
    ELSE LET finalMap == mergeSourcemaps(FilterMaps(p.sourceMaps))
         IN  IF ~IsMap(finalMap)
             THEN [code |-> p.code, map |-> NullMap, loader |-> p.loader]
             ELSE LET m == [finalMap EXCEPT
                                !.file = o.source,
                                !.content = @ /\ o.sourcesContent]
                  IN  [code |-> IF o.sourcemap = "inline"
                                THEN inlineSourcemap(p.code, m) ELSE p.code,
                       map |-> m, loader |-> p.loader]

\* o.sourcemap is "true", "false", "inline" or "default" (not given: true).
finalize(p, o) ==
    IF Len(p.sourceMaps) < 2 \/ p.code = p.contents \/ o.sourcemap = "false"
    THEN [code |-> p.code, map |-> NullMap, loader |-> p.loader]
    ELSE LET finalMap == mergeSourcemaps(FilterMaps(p.sourceMaps))
         IN  IF ~IsMap(finalMap)
             THEN [code |-> p.code, map |-> NullMap, loader |-> p.loader]
             ELSE LET m == [finalMap EXCEPT
                                !.file = o.source,
                                !.content = @ /\ o.sourcesContent]
                  IN  [code |-> IF o.sourcemap = "inline"
                                THEN inlineSourcemap(p.code, m) ELSE p.code,
                       map |-> m, loader |-> p.loader]

-----------------------------------------------------------------------------
(***************************************************************************)
(* The pipeline as a state machine: createPipeline, then pipe() calls,     *)
(* then finalize.                                                          *)
(***************************************************************************)
Bodies == {<<"a", "b">>}

Trailer(url) == <<"NL", "//#", "SP", "sourceMappingURL=">> \o url

Trailers ==
    { <<>>,
      Trailer(<<"data:", "application/json;base64", ",", "B64{map}">>),
      Trailer(<<"data:", "application/json;base64", ",", "B64{oops">>),
      Trailer(<<"data:", "application/json;base64">>),
      Trailer(<<"data:", "application/json", ",", "{map}">>),
      Trailer(<<"ok.map">>),
      Trailer(<<"bad.map">>),
      Trailer(<<"missing.map">>),
      <<"NL", "//#", "sourceMappingURL=">>,
      <<"//#", "sourceMappingURL=", "ok.map">> }

Tails == {<<>>, <<"SP", "NL">>}

Inputs == {b \o t \o w : b \in Bodies, t \in Trailers, w \in Tails}

NoOptions == [source |-> <<>>, sourcemap |-> "default", sourcesContent |-> TRUE]

Options ==
    { [source |-> <<"x", ".ts">>, sourcemap |-> "true", sourcesContent |-> TRUE],
      [source |-> <<"x", ".tsx">>, sourcemap |-> "inline", sourcesContent |-> TRUE],
      [source |-> <<"x", ".js">>, sourcemap |-> "false", sourcesContent |-> TRUE],
      [source |-> <<"x", ".js">>, sourcemap |-> "default", sourcesContent |-> FALSE],
      [source |-> <<>>, sourcemap |-> "true", sourcesContent |-> TRUE],
      [source |-> <<>>, sourcemap |-> "inline", sourcesContent |-> FALSE] }

NoFinal == [code |-> <<>>, map |-> NullMap, loader |-> ""]

CreatePipeline(contents, options) ==
    /\ phase = "none"
    /\ LET made == createPipeline(contents, options.source)
       IN  /\ phase' = IF made.status = "throw" THEN "threw" ELSE "open"
           /\ pipeline' = IF made.status = "throw" THEN NoPipeline ELSE made.pipeline
    /\ opts' = options
    /\ UNCHANGED <<nsteps, hist, result>>

Pipe(cb) ==
    /\ phase = "open"
    /\ nsteps < MaxSteps
    /\ LET r == transform(pipeline.code, opts, cb)
       IN  /\ pipeline' = pipe(pipeline, r)
           /\ hist' = Append(hist, [before |-> pipeline.code, res |-> r])
    /\ nsteps' = nsteps + 1
    /\ UNCHANGED <<phase, opts, result>>

Finalize ==
    /\ phase = "open"
    /\ result' = finalize(pipeline, opts)
    /\ phase' = "final"
    /\ UNCHANGED <<pipeline, opts, nsteps, hist>>

-----------------------------------------------------------------------------
(***************************************************************************)
(* The scoped SASS resolver.  An import url is a sequence of tokens:       *)
(* "~" and "package:" prefixes, "/" separators, "_" and "@" as leading     *)
(* characters of a segment, names, and extensions (".scss").               *)
(***************************************************************************)
CSS_EXTENSIONS == <<".css", ".scss", ".sass">>

ExtTokens == {".css", ".scss", ".sass", ".txt"}

\* path.extname(url)
extname(url) == IF url # <<>> /\ Last(url) \in ExtTokens THEN Last(url) ELSE ""

\* Index of the first token of path.basename(url).
BaseStart(url) ==
    LET slashes == {i \in 1..Len(url) : url[i] = "/"}
    IN  IF slashes = {} THEN 1 ELSE (CHOOSE i \in slashes : \A j \in slashes : j <= i) + 1

\* path.join(path.dirname(r), `_${path.basename(r)}`)
Partial(r) ==
    SubSeq(r, 1, BaseStart(r) - 1) \o <<"_">> \o SubSeq(r, BaseStart(r), Len(r))

\* alternatives() with each partial placed right after its candidate.
alternativesPaired(url) ==
    LET results == IF extname(url) # "" THEN <<url>>
                   ELSE [e \in 1..Len(CSS_EXTENSIONS) |-> url \o <<CSS_EXTENSIONS[e]>>]
    IN  IF BaseStart(url) <= Len(url) /\ url[BaseStart(url)] = "_" THEN results
        ELSE [k \in 1..(2 * Len(results)) |->
                 IF k % 2 = 1 THEN results[(k + 1) \div 2]
                 ELSE Partial(results[k \div 2])]

alternatives(url) ==
    LET results == IF extname(url) # "" THEN <<url>>
                   ELSE [e \in 1..Len(CSS_EXTENSIONS) |-> url \o <<CSS_EXTENSIONS[e]>>]
    IN  IF BaseStart(url) <= Len(url) /\ url[BaseStart(url)] = "_" THEN results
        ELSE results \o [i \in 1..Len(results) |-> Partial(results[i])]

\* The prefix left in place.
StripPrefixNone(url) == url

\* url.replace(/^(~|package:)/, '')
StripPrefix(url) ==
    IF url # <<>> /\ url[1] \in {"~", "package:"} THEN Tail(url) ELSE url

\* url.split('/').length
SplitLength(url) == Cardinality({i \in 1..Len(url) : url[i] = "/"}) + 1

\* The candidate list of nodeResolver for the (prefix-stripped) url.
ToCheck(url) ==
    IF SplitLength(url) = 1 THEN <<url>>
    ELSE IF url[1] = "@" /\ SplitLength(url) = 2 THEN <<url>>
    ELSE alternatives(url)

\* styleResolve(modCheck, prev) for one importer: the absolute path of an
\* existing stylesheet, or an exception.  The package "dir" names
\* dir/foo.scss in the `style` field of its package.json.
styleResolve(modCheck, files) ==
    IF modCheck \notin files THEN [ok |-> FALSE, path |-> <<>>]
    ELSE IF modCheck = <<"dir">>
    THEN [ok |-> TRUE, path |-> <<"/", "dir", "/", "foo", ".scss">>]
    ELSE [ok |-> TRUE, path |-> <<"/">> \o modCheck]

Instances == {"r1", "r2"}

Urls ==
    { <<"foo">>,
      <<"dir">>,
      <<"dir", "/", "foo">>,
      <<"~", "dir", "/", "foo">>,
      <<"package:", "dir", "/", "foo">>,
      <<"dir", "/", "foo", ".scss">>,
      <<"dir", "/", "_", "foo">>,
      <<"@", "s", "/", "pkg">> }

Worlds ==
    { {},
      {<<"dir", "/", "foo", ".scss">>, <<"dir">>},
      {<<"dir", "/", "_", "foo", ".css">>, <<"dir", "/", "foo", ".sass">>},
      {<<"foo">>, <<"@", "s", "/", "pkg">>, <<"dir", "/", "_", "foo", ".scss">>} }

\* The value nodeResolver returns: {file: url} or {contents: ''}.
Pending == [kind |-> "pending", file |-> <<>>]

\* The tail of nodeResolver with the push made before the membership test
\* decides.
DedupePushFirst(list, url) ==
    [list |-> Append(list, url),
     ret |-> IF url \in Range(list) THEN [kind |-> "contents", file |-> <<>>]
             ELSE [kind |-> "file", file |-> url]]

\* The tail of nodeResolver without the membership test.
DedupeNever(list, url) ==
    [list |-> Append(list, url), ret |-> [kind |-> "file", file |-> url]]

\* The tail of nodeResolver: the membership test and the push, which run
\* with no await between them.  Gives the new list and the returned value.
Dedupe(list, url) ==
    IF url \in Range(list)
    THEN [list |-> list, ret |-> [kind |-> "contents", file |-> <<>>]]
    ELSE [list |-> Append(list, url), ret |-> [kind |-> "file", file |-> url]]

\* nodeResolver(url, prev) up to its first `await styleResolve(...)`.
Call(inst, arg) ==
    /\ Len(calls) < MaxCalls
    /\ LET url == StripPrefix(arg)
           toCheck == ToCheck(url)
       IN  calls' = Append(calls,
               [inst |-> inst, arg |-> arg, url |-> url, toCheck |-> toCheck,
                i |-> 1, tried |-> <<toCheck[1]>>, pc |-> "await", ret |-> Pending])
    /\ UNCHANGED <<resolved, fs>>

\* The awaited styleResolve settles and the call runs on to its next await
\* or to its return.
Resume(c) ==
    /\ calls[c].pc = "await"
    /\ LET call == calls[c]
           found == styleResolve(call.toCheck[call.i], fs)
           url == IF found.ok THEN found.path ELSE call.url
           more == ~found.ok /\ call.i < Len(call.toCheck)
           out == Dedupe(resolved[call.inst], url)
       IN  IF more
           THEN /\ calls' = [calls EXCEPT ![c].i = @ + 1,
                                  ![c].tried = Append(@, call.toCheck[call.i + 1])]
                /\ UNCHANGED resolved
           ELSE /\ calls' = [calls EXCEPT ![c].url = url, ![c].pc = "done",
                                          ![c].ret = out.ret]
                /\ resolved' = [resolved EXCEPT ![call.inst] = out.list]
    /\ UNCHANGED fs

-----------------------------------------------------------------------------
(***************************************************************************)
(* The emit plugin.  An import specifier is a sequence of tokens: a path,  *)
(* then "?" and key "=" value pairs separated by "&".                      *)
(***************************************************************************)
\* The pieces of s between the separators sep, as String.prototype.split.
RECURSIVE SplitOn(_, _)
SplitOn(s, sep) ==
    LET at == {i \in 1..Len(s) : s[i] = sep}
    IN  IF at = {} THEN <<s>>
        ELSE <<SubSeq(s, 1, Min(at) - 1)>> \o SplitOn(SubSeq(s, Min(at) + 1, Len(s)), sep)

\* encodeURIComponent / decodeURIComponent on the values used here.
UrlEncode(v) ==
    CASE v = "{}" -> "%7B%7D"
      [] v = "{format:iife}" -> "%7Bformat%3Aiife%7D"
      [] OTHER -> v

UrlDecode(v) ==
    CASE v = "%7B%7D" -> "{}"
      [] v = "%7Bformat%3Aiife%7D" -> "{format:iife}"
      [] OTHER -> v

\* One "key=value" piece of a query string.
ParsePair(piece) ==
    [key |-> IF piece = <<>> THEN "" ELSE piece[1],
     value |-> IF Len(piece) >= 3 /\ piece[2] = "=" THEN UrlDecode(piece[3]) ELSE ""]

getSearchParams(source) ==
    LET q == {i \in 1..Len(source) : source[i] = "?"}
    IN  IF q = {} THEN [path |-> source, searchParams |-> <<>>]
        ELSE LET search == SubSeq(source, Min(q) + 1, Len(source))
                 pieces == SelectSeq(SplitOn(search, "&"), LAMBDA x : x # <<>>)
             IN  [path |-> SubSeq(source, 1, Min(q) - 1),
                  searchParams |-> [i \in 1..Len(pieces) |-> ParsePair(pieces[i])]]

hasSearchParam(source, param) ==
    \E i \in 1..Len(getSearchParams(source).searchParams) :
        getSearchParams(source).searchParams[i].key = param

RECURSIVE FormatParams(_)
FormatParams(params) ==
    IF params = <<>> THEN <<>>
    ELSE <<Head(params).key, "=", UrlEncode(Head(params).value)>>
         \o (IF Len(params) > 1 THEN <<"&">> ELSE <<>>)
         \o FormatParams(Tail(params))

appendSearchParam(source, param, value) ==
    LET parsed == getSearchParams(source)
    IN  parsed.path \o <<"?">>
        \o FormatParams(Append(parsed.searchParams, [key |-> param, value |-> value]))

\* emitFile without the test for an `emit` parameter already there.
emitFileUnguarded(source) == appendSearchParam(source, "emit", "file")

emitFile(source) ==
    IF hasSearchParam(source, "emit") THEN source
    ELSE appendSearchParam(source, "emit", "file")

\* options stands for JSON.stringify(options).
emitChunk(source, options) ==
    appendSearchParam(appendSearchParam(source, "emit", "chunk"), "transform", options)

\* EMIT_CHUNK_REGEX = /(\?|&)emit=chunk/
EMIT_CHUNK_REGEX(source) ==
    \E i \in 1..(Len(source) - 3) :
        /\ source[i] \in {"?", "&"}
        /\ source[i + 1] = "emit" /\ source[i + 2] = "=" /\ source[i + 3] = "chunk"

EmitPaths == {<<"/", "cwd", "src", "a.js">>, <<"/", "cwd", "src", "c.js">>}

EmitQueries ==
    { <<>>,
      <<"?", "emit", "=", "file">>,
      <<"?", "emit", "=", "chunk">>,
      <<"?", "x", "=", "1">>,
      <<"?", "x", "=", "1", "&", "emit", "=", "chunk">>,
      <<"?", "emitter", "=", "1">> }

EmitSources == {p \o q : p \in EmitPaths, q \in EmitQueries}

ChunkOptions == {"{}", "{format:iife}"}

(***************************************************************************)
(* The load hook of the emit-chunk namespace.  Paths are sequences of      *)
(* segments, absolute ones starting with "/".  An output of the metafile   *)
(* is its file name (a last token ".map" for a source map) and its         *)
(* entryPoint (<<>> when it has none).                                     *)
(***************************************************************************)
Cwd == <<"/", "cwd">>

\* path.resolve(p)
PathResolve(p) ==
    IF p # <<>> /\ p[1] = "/" THEN p
    ELSE Cwd \o SelectSeq(p, LAMBDA seg : seg # ".")

OutputPool ==
    { [name |-> <<"out", "a.js">>, entryPoint |-> <<"src", "a.js">>],
      [name |-> <<"out", "a.js", ".map">>, entryPoint |-> <<>>],
      [name |-> <<"out", "b.js">>, entryPoint |-> <<"src", "b.js">>],
      [name |-> <<"out", "chunk.js">>, entryPoint |-> <<>>],
      [name |-> <<"out", "x.js", ".map">>, entryPoint |-> <<".", "src", "a.js">>],
      [name |-> <<"out", "a2.js">>, entryPoint |-> <<"/", "cwd", "src", "a.js">>] }

\* Object.keys(outputs) with its values: file names are distinct.
Metafiles ==
    {m \in UNION {[1..k -> OutputPool] : k \in 0..MaxOutputs} :
        \A i, j \in 1..Len(m) : i # j => m[i].name # m[j].name}

Undefined == <<>>

\* The selection with the '.map' filter left out.
SelectOutputNoMapFilter(filePath, outputs) ==
    LET withEntry == SelectSeq(outputs, LAMBDA o : o.entryPoint # <<>>)
        hits == {i \in 1..Len(withEntry) :
                    filePath = PathResolve(withEntry[i].entryPoint)}
    IN  IF hits # {} THEN withEntry[Min(hits)].name
        ELSE IF outputs # <<>> THEN outputs[1].name
        ELSE Undefined

\* filter(not .map).filter(entryPoint).find(same path) || outputFiles[0]
SelectOutput(filePath, outputs) ==
    LET noMaps == SelectSeq(outputs, LAMBDA o : Last(o.name) # ".map")
        withEntry == SelectSeq(noMaps, LAMBDA o : o.entryPoint # <<>>)
        hits == {i \in 1..Len(withEntry) :
                    filePath = PathResolve(withEntry[i].entryPoint)}
    IN  IF hits # {} THEN withEntry[Min(hits)].name
        ELSE IF outputs # <<>> THEN outputs[1].name
        ELSE Undefined

NoChunk == [filePath |-> <<>>, hasMeta |-> FALSE, outputs |-> <<>>,
            read |-> <<>>, status |-> "idle"]

NoEmit == [op |-> "", arg |-> <<>>, options |-> "", out |-> <<>>]

EmitFile ==
    /\ chunk.status = "idle"
    /\ emitOps < MaxEmitOps
    /\ emitSrc' = emitFile(emitSrc)
    /\ emitLog' = [op |-> "emitFile", arg |-> emitSrc, options |-> "",
                   out |-> emitFile(emitSrc)]
    /\ emitOps' = emitOps + 1
    /\ UNCHANGED chunk

EmitChunk(options) ==
    /\ chunk.status = "idle"
    /\ emitOps < MaxEmitOps
    /\ emitSrc' = emitChunk(emitSrc, options)
    /\ emitLog' = [op |-> "emitChunk", arg |-> emitSrc, options |-> options,
                   out |-> emitChunk(emitSrc, options)]
    /\ emitOps' = emitOps + 1
    /\ UNCHANGED chunk

\* build.onResolve for a chunk import, then build.onLoad in the emit-chunk
\* namespace: the nested build answers with a metafile (or none) and the
\* hook reads the file it selects.
LoadChunk(hasMeta, outputs) ==
    /\ chunk.status = "idle"
    /\ EMIT_CHUNK_REGEX(emitSrc)
    /\ ~hasMeta => outputs = <<>>
    /\ LET filePath == getSearchParams(emitSrc).path
           read == IF hasMeta THEN SelectOutput(filePath, outputs) ELSE filePath
       IN  chunk' = [filePath |-> filePath, hasMeta |-> hasMeta, outputs |-> outputs,
                     read |-> read,
                     status |-> IF read = Undefined THEN "threw" ELSE "loaded"]
    /\ UNCHANGED <<emitSrc, emitOps, emitLog>>

-----------------------------------------------------------------------------
(***************************************************************************)
(* Specifications, one per unit; the other units stay idle.                *)
(***************************************************************************)
PipelineInit ==
    /\ phase = "none"
    /\ pipeline = NoPipeline
    /\ opts = NoOptions
    /\ nsteps = 0
    /\ hist = <<>>
    /\ result = NoFinal
    /\ resolved = [r \in Instances |-> <<>>]
    /\ fs = {}
    /\ calls = <<>>
    /\ emitSrc = <<>>
    /\ emitOps = 0
    /\ emitLog = NoEmit
    /\ chunk = NoChunk

\* Every resolver instance starts with an empty list (the factory's
\* `const resolved = []`).
ResolverInit ==
    /\ phase = "none"
    /\ pipeline = NoPipeline
    /\ opts = NoOptions
    /\ nsteps = 0
    /\ hist = <<>>
    /\ result = NoFinal
    /\ resolved = [r \in Instances |-> <<>>]
    /\ fs \in Worlds
    /\ calls = <<>>
    /\ emitSrc = <<>>
    /\ emitOps = 0
    /\ emitLog = NoEmit
    /\ chunk = NoChunk

EmitInit ==
    /\ phase = "none"
    /\ pipeline = NoPipeline
    /\ opts = NoOptions
    /\ nsteps = 0
    /\ hist = <<>>
    /\ result = NoFinal
    /\ resolved = [r \in Instances |-> <<>>]
    /\ fs = {}
    /\ calls = <<>>
    /\ emitSrc \in EmitSources
    /\ emitOps = 0
    /\ emitLog = NoEmit
    /\ chunk = NoChunk

PipelineNext ==
    \/ \E contents \in Inputs, options \in Options :
          CreatePipeline(contents, options) /\ UNCHANGED <<resolverVars, emitVars>>
    \/ \E cb \in Callbacks(pipeline) : Pipe(cb) /\ UNCHANGED <<resolverVars, emitVars>>
    \/ Finalize /\ UNCHANGED <<resolverVars, emitVars>>

PipelineSpec == PipelineInit /\ [][PipelineNext]_vars

ResolverNext ==
    \/ \E inst \in Instances, url \in Urls :
          Call(inst, url) /\ UNCHANGED <<pipeVars, emitVars>>
    \/ \E c \in 1..Len(calls) : Resume(c) /\ UNCHANGED <<pipeVars, emitVars>>

ResolverSpec == ResolverInit /\ [][ResolverNext]_vars

EmitNext ==
    \/ EmitFile /\ UNCHANGED <<pipeVars, resolverVars>>
    \/ \E options \in ChunkOptions :
          EmitChunk(options) /\ UNCHANGED <<pipeVars, resolverVars>>
    \/ \E hasMeta \in BOOLEAN, outputs \in Metafiles :
          LoadChunk(hasMeta, outputs) /\ UNCHANGED <<pipeVars, resolverVars>>

EmitSpec == EmitInit /\ [][EmitNext]_vars

-----------------------------------------------------------------------------
(***************************************************************************)
(* Properties of the transform pipeline (checked under PipelineSpec).      *)
(***************************************************************************)
Changed(h) == h.res.code # h.before
ChangedSteps == {i \in 1..Len(hist) : Changed(hist[i])}
MapsEnabled == opts.sourcemap # "false"
IsPrefix(s, t) == Len(s) <= Len(t) /\ SubSeq(t, 1, Len(s)) = s
AllWhitespace(s) == \A i \in 1..Len(s) : s[i] \in WS

\* C1 (as stated): when no pipe() step changed the text, finalize returns
\* the original text passed to createPipeline and a null map.
C1_OriginalText ==
    (phase = "final" /\ ChangedSteps = {}) =>
        /\ result.code = pipeline.contents
        /\ result.map = NullMap

\* C1 (amended): when no pipe() step changed the text, finalize returns a
\* null map and the original text cut before its first
\* "\n//# sourceMappingURL=" trailer, or, when it has none, with its
\* trailing whitespace removed.
C1_LoadedText ==
    (phase = "final" /\ ChangedSteps = {}) =>
        LET rest == SubSeq(pipeline.contents, Len(result.code) + 1,
                           Len(pipeline.contents))
        IN  /\ result.map = NullMap
            /\ IsPrefix(result.code, pipeline.contents)
            /\ FirstMatch(result.code) = 0
            /\ \/ MatchEnd(rest, 1) # 0
               \/ /\ AllWhitespace(rest)
                  /\ result.code = <<>> \/ Last(result.code) \notin WS

C1_Witness ==
    /\ phase = "final" /\ nsteps = 2 /\ ChangedSteps = {}
    /\ result.code # pipeline.contents
    /\ FirstMatch(pipeline.contents) # 0
    /\ Len(pipeline.sourceMaps) = 1

\* C2 (as stated): when exactly one pipe() step changed the text and maps
\* are enabled, finalize returns a non-null map whose mappings are those of
\* that step's map.
C2_OneStepMap ==
    (phase = "final" /\ Cardinality(ChangedSteps) = 1 /\ MapsEnabled) =>
        LET step == hist[CHOOSE i \in ChangedSteps : TRUE]
        IN  /\ IsMap(result.map)
            /\ result.map.mappings = step.res.map.mappings

\* Position i of the last map's generated text followed back through every
\* map of the list, from the last to the first (0: no original position).
RECURSIVE Trace(_, _)
Trace(maps, i) ==
    IF maps = <<>> THEN i
    ELSE LET m == Last(maps).mappings
             j == IF i \in 1..Len(m) THEN m[i] ELSE 0
         IN  IF j = 0 THEN 0 ELSE Trace(Front(maps), j)

TwoStepMaps ==
    /\ Cardinality(ChangedSteps) = 2
    /\ Len(pipeline.sourceMaps) = 2
    /\ IsMap(pipeline.sourceMaps[1]) /\ IsMap(pipeline.sourceMaps[2])

Composed(m1, m2, i) ==
    IF m2.mappings[i] \in 1..Len(m1.mappings) THEN m1.mappings[m2.mappings[i]] ELSE 0

\* C3 (as stated): when two text-changing steps were piped (the pipeline
\* holds maps m1 then m2) and maps are enabled, finalize returns the map
\* that takes a final position through m2 and then through m1.
C3_TwoStepsCompose ==
    (phase = "final" /\ TwoStepMaps /\ MapsEnabled) =>
        /\ IsMap(result.map)
        /\ Len(result.map.mappings) = Len(pipeline.sourceMaps[2].mappings)
        /\ \A i \in 1..Len(result.map.mappings) :
              result.map.mappings[i] =
                  Composed(pipeline.sourceMaps[1], pipeline.sourceMaps[2], i)

\* C3 (amended): the same, provided the final text is not identical to the
\* original contents (finalize then returns no map); and whenever finalize
\* returns a map, it is the non-null maps followed back from the last to
\* the first.
C3_ComposeWhenTextDiffers ==
    /\ (phase = "final" /\ TwoStepMaps /\ MapsEnabled
            /\ pipeline.code # pipeline.contents) =>
        /\ IsMap(result.map)
        /\ Len(result.map.mappings) = Len(pipeline.sourceMaps[2].mappings)
        /\ \A i \in 1..Len(result.map.mappings) :
              result.map.mappings[i] =
                  Composed(pipeline.sourceMaps[1], pipeline.sourceMaps[2], i)
    /\ (phase = "final" /\ IsMap(result.map)) =>
        \A i \in 1..Len(result.map.mappings) :
            result.map.mappings[i] = Trace(FilterMaps(pipeline.sourceMaps), i)

\* Two steps with different maps: some final position is taken by the
\* second map to another position, and from there by the first map to an
\* original position, so the offset of the first step shows in the result.
C3_Witness ==
    /\ phase = "final" /\ TwoStepMaps /\ MapsEnabled
    /\ IsMap(result.map)
    /\ pipeline.sourceMaps[1].mappings # pipeline.sourceMaps[2].mappings
    /\ \E i \in 1..Len(result.map.mappings) :
          /\ result.map.mappings[i] # 0
          /\ result.map.mappings[i] # pipeline.sourceMaps[2].mappings[i]
          /\ pipeline.sourceMaps[2].mappings[i] # i

\* C8: a pipe() call appends exactly one entry (the step's map) to
\* sourceMaps and replaces code if and only if the step's text differs from
\* the current code; otherwise both stay as they are.  contents never
\* changes and the earlier entries stay in place.
C8_PipeFrame ==
    [][nsteps' = nsteps + 1 =>
        LET r == Last(hist').res
        IN  /\ pipeline'.contents = pipeline.contents
            /\ IsPrefix(pipeline.sourceMaps, pipeline'.sourceMaps)
            /\ r.code # pipeline.code =>
                  /\ pipeline'.sourceMaps = Append(pipeline.sourceMaps, r.map)
                  /\ pipeline'.code = r.code
            /\ r.code = pipeline.code =>
                  /\ pipeline'.sourceMaps = pipeline.sourceMaps
                  /\ pipeline'.code = pipeline.code]_vars

C8_Witness ==
    /\ nsteps = 2
    /\ ~Changed(hist[1]) /\ Changed(hist[2])
    /\ pipeline.sourceMaps = <<hist[2].res.map>>
    /\ pipeline.code = hist[2].res.code

BadUrls ==
    { <<"data:", "application/json;base64", ",", "B64{oops">>,
      <<"data:", "application/json;base64">>,
      <<"bad.map">>,
      <<"missing.map">> }

\* C10: for an input whose trailer is malformed or names an unreadable
\* file, createPipeline does not throw and gives the pipeline of an input
\* without map: no entry in sourceMaps, code the text before the trailer.
C10_LoadFailureSwallowed ==
    /\ phase # "threw"
    /\ \A b \in Bodies, u \in BadUrls, w \in Tails :
          (phase = "open" /\ nsteps = 0
                /\ pipeline.contents = b \o Trailer(u) \o w) =>
             /\ pipeline.sourceMaps = <<>>
             /\ pipeline.code = b

C10_Witness ==
    /\ phase = "open" /\ nsteps = 0
    /\ opts.source # <<>>
    /\ pipeline.contents = <<"a", "b">> \o Trailer(<<"missing.map">>) \o <<"SP", "NL">>
    /\ pipeline.code = <<"a", "b">>

-----------------------------------------------------------------------------
(***************************************************************************)
(* Properties of the SASS resolver (checked under ResolverSpec).           *)
(***************************************************************************)
Done(c) == calls[c].pc = "done"

\* C4: within one resolver instance, the first call that ends with path P
\* returns {file: P} and every later call that ends with the same P
\* returns {contents: ''}; the calls of another instance do not count.
C4_DedupePerInstance ==
    [][\A c \in 1..Len(calls) :
          (calls[c].pc = "await" /\ calls'[c].pc = "done") =>
              LET P == calls'[c].url
                  earlier == {d \in 1..Len(calls) :
                                 /\ Done(d)
                                 /\ calls[d].inst = calls[c].inst
                                 /\ calls[d].url = P}
              IN  IF earlier = {}
                  THEN calls'[c].ret = [kind |-> "file", file |-> P]
                  ELSE calls'[c].ret = [kind |-> "contents", file |-> <<>>]]_vars

C4_Witness ==
    /\ Len(calls) = 2 /\ Done(1) /\ Done(2)
    /\ calls[1].inst = calls[2].inst
    /\ calls[1].arg # calls[2].arg
    /\ calls[1].url = <<"/", "dir", "/", "foo", ".scss">>
    /\ calls[2].url = calls[1].url
    /\ calls[1].ret.kind = "file" /\ calls[2].ret.kind = "contents"
    /\ resolved[calls[1].inst] = <<calls[1].url>>

\* foo+e followed by _foo+e, for every e of CSS_EXTENSIONS in turn.
PairedCandidates(url) ==
    [k \in 1..(2 * Len(CSS_EXTENSIONS)) |->
        IF k % 2 = 1 THEN url \o <<CSS_EXTENSIONS[(k + 1) \div 2]>>
        ELSE <<"_">> \o url \o <<CSS_EXTENSIONS[k \div 2]>>]

\* The candidates are tried in list order and the search stops at the
\* first one that exists.
TriedInOrder(c) ==
    /\ IsPrefix(calls[c].tried, calls[c].toCheck)
    /\ \A k \in 1..(Len(calls[c].tried) - 1) : calls[c].tried[k] \notin fs
    /\ Done(c) =>
          \/ Last(calls[c].tried) \in fs
          \/ calls[c].tried = calls[c].toCheck

\* C5 (as stated): for the bare extensionless import "foo" the candidates
\* are foo+e, _foo+e for every e of CSS_EXTENSIONS, paired in that order,
\* tried in list order until the first hit.
C5_PairedOrder ==
    \A c \in 1..Len(calls) :
        calls[c].arg = <<"foo">> =>
            /\ calls[c].toCheck = PairedCandidates(<<"foo">>)
            /\ TriedInOrder(c)

\* C5 (amended): a single-segment import "foo" is tried as it is, as its
\* only candidate; an extensionless import with a directory, "dir/foo", is
\* tried as dir/foo+e for every e of CSS_EXTENSIONS in order and after
\* those as dir/_foo+e for every e in the same order; the candidates are
\* tried in list order until the first hit.
C5_GroupedOrder ==
    \A c \in 1..Len(calls) :
        /\ calls[c].arg = <<"foo">> => calls[c].toCheck = <<<<"foo">>>>
        /\ calls[c].arg = <<"dir", "/", "foo">> =>
              /\ Len(calls[c].toCheck) = 2 * Len(CSS_EXTENSIONS)
              /\ \A e \in 1..Len(CSS_EXTENSIONS) :
                    /\ calls[c].toCheck[e] = <<"dir", "/", "foo", CSS_EXTENSIONS[e]>>
                    /\ calls[c].toCheck[Len(CSS_EXTENSIONS) + e] =
                           <<"dir", "/", "_", "foo", CSS_EXTENSIONS[e]>>
        /\ TriedInOrder(c)

\* dir/foo.sass is found third, before the partial dir/_foo.css is tried.
C5_Witness ==
    \E c \in 1..Len(calls) :
        /\ Done(c)
        /\ calls[c].arg = <<"dir", "/", "foo">>
        /\ <<"dir", "/", "_", "foo", ".css">> \in fs
        /\ Len(calls[c].tried) = Len(CSS_EXTENSIONS)
        /\ calls[c].ret = [kind |-> "file", file |-> <<"/", "dir", "/", "foo", ".sass">>]

-----------------------------------------------------------------------------
(***************************************************************************)
(* Properties of the emit plugin (checked under EmitSpec).                 *)
(***************************************************************************)
\* The specifier carries a search parameter named emit.
CarriesEmit(s) ==
    \E i \in 1..(Len(s) - 1) : s[i] \in {"?", "&"} /\ s[i + 1] = "emit"

\* C6: emitFile leaves a specifier that already carries an emit parameter
\* (file or chunk) as it is; so emitFile after emitFile, and emitFile after
\* emitChunk, change nothing.
\* (Stated for every specifier the helpers build, before it is loaded.)
C6_EmitFileIdempotent ==
    chunk.status = "idle" =>
        /\ CarriesEmit(emitSrc) => emitFile(emitSrc) = emitSrc
        /\ emitFile(emitFile(emitSrc)) = emitFile(emitSrc)
        /\ \A o \in ChunkOptions :
              emitFile(emitChunk(emitSrc, o)) = emitChunk(emitSrc, o)
        /\ (emitLog.op = "emitFile" /\ CarriesEmit(emitLog.arg)) =>
              emitLog.out = emitLog.arg

C6_Witness ==
    /\ emitLog.op = "emitFile"
    /\ CarriesEmit(emitLog.arg)
    /\ \E i \in 1..Len(emitLog.arg) : emitLog.arg[i] = "chunk"
    /\ \E i \in 1..Len(emitLog.arg) : emitLog.arg[i] = "transform"
    /\ emitLog.out = emitLog.arg
    /\ emitOps = 2

\* C7: with a metafile, the load hook reads the first output that is no
\* '.map' file, has an entryPoint, and whose entryPoint resolves to the
\* requested file; when there is none, it reads the first listed output.
C7_ChunkSelection ==
    (chunk.status # "idle" /\ chunk.hasMeta) =>
        LET good == {i \in 1..Len(chunk.outputs) :
                        /\ Last(chunk.outputs[i].name) # ".map"
                        /\ chunk.outputs[i].entryPoint # <<>>
                        /\ PathResolve(chunk.outputs[i].entryPoint) = chunk.filePath}
        IN  IF good # {}
            THEN /\ chunk.read = chunk.outputs[Min(good)].name
                 /\ chunk.status = "loaded"
            ELSE chunk.outputs # <<>> =>
                 /\ chunk.read = chunk.outputs[1].name
                 /\ chunk.status = "loaded"

\* The listing starts with a '.map' output that names the requested entry
\* point; the output read is the matching one listed after it.
C7_Witness ==
    /\ chunk.status = "loaded" /\ chunk.hasMeta
    /\ Len(chunk.outputs) >= 2
    /\ Last(chunk.outputs[1].name) = ".map"
    /\ chunk.outputs[1].entryPoint # <<>>
    /\ PathResolve(chunk.outputs[1].entryPoint) = chunk.filePath
    /\ chunk.read = <<"out", "a.js">>
    /\ chunk.read # chunk.outputs[1].name

-----------------------------------------------------------------------------
(***************************************************************************)
(* More properties of the SASS resolver (checked under ResolverSpec).      *)
(***************************************************************************)
\* Every candidate of the call was tried and none exists.
AllFailed(c) ==
    /\ Done(c)
    /\ calls[c].tried = calls[c].toCheck
    /\ \A k \in 1..Len(calls[c].toCheck) : calls[c].toCheck[k] \notin fs

\* The search of the call stopped at a candidate that exists.
Found(c) == Done(c) /\ Last(calls[c].tried) \in fs

\* The specifier without a leading "~" or "package:".
Unprefixed(arg) == IF arg[1] \in {"~", "package:"} THEN SubSeq(arg, 2, Len(arg)) ELSE arg

-----------------------------------------------------------------------------
(***************************************************************************)
(* More properties of the transform pipeline (checked under PipelineSpec). *)
(***************************************************************************)
\* A data URI whose payload is the base64 of the JSON of a map.
InlineMapUrl == <<"data:", "application/json;base64", ",", "B64{map}">>

\* A reference to a file that holds the JSON of a map.
FileMapUrl == <<"ok.map">>

\* The pipeline is the one createPipeline just returned for body b
\* followed by a trailer with url u.
CreatedFrom(b, u) ==
    /\ phase = "open" /\ nsteps = 0
    /\ \E w \in Tails : pipeline.contents = b \o Trailer(u) \o w

\* C12: for an input that carries a valid map, inline as a base64 data URI
\* or as a reference to a file that exists next to `source`, createPipeline
\* returns a pipeline whose sourceMaps starts with exactly that map and
\* whose code is the text without the trailer; target is 'typescript' iff
\* source ends in .ts or .tsx (else 'unknown'), loader is 'ts' for a .ts
\* source and 'tsx' otherwise.
C12_ValidMapLoaded ==
    \A b \in Bodies :
        ((CreatedFrom(b, InlineMapUrl))
            \/ (CreatedFrom(b, FileMapUrl) /\ opts.source # <<>>)) =>
        /\ pipeline.sourceMaps = <<InMap>>
        /\ pipeline.code = b
        /\ pipeline.target = "typescript" <=>
              (opts.source # <<>> /\ Last(opts.source) \in {".ts", ".tsx"})
        /\ pipeline.target \in {"typescript", "unknown"}
        /\ pipeline.loader = "ts" <=>
              (opts.source # <<>> /\ Last(opts.source) = ".ts")
        /\ pipeline.loader \in {"ts", "tsx"}

-----------------------------------------------------------------------------
(***************************************************************************)
(* Concurrent calls of one resolver instance (checked under ResolverSpec). *)
(***************************************************************************)
\* The calls of instance r that have returned for path P.
DoneFor(r, P) ==
    {c \in 1..Len(calls) : Done(c) /\ calls[c].inst = r /\ calls[c].url = P}

Occurrences(list, P) == Cardinality({k \in 1..Len(list) : list[k] = P})

\* C13: however the calls of one instance that are suspended at their
\* await interleave, of those that end with the same path P exactly one
\* returns {file: P}, all others return {contents: ''}, and P is in the
\* instance's list exactly once.
C13_OneFilePerPath ==
    \A r \in Instances :
        /\ \A c \in 1..Len(calls) :
              (Done(c) /\ calls[c].inst = r) =>
                 LET same == DoneFor(r, calls[c].url)
                     files == {d \in same : calls[d].ret.kind = "file"}
                 IN  /\ Cardinality(files) = 1
                     /\ \A d \in files : calls[d].ret.file = calls[c].url
                     /\ \A d \in same \ files :
                           calls[d].ret = [kind |-> "contents", file |-> <<>>]
                     /\ Occurrences(resolved[r], calls[c].url) = 1
        /\ \A k \in 1..Len(resolved[r]) :
              /\ Occurrences(resolved[r], resolved[r][k]) = 1
              /\ DoneFor(r, resolved[r][k]) # {}

\* Both calls were in flight together: the one started second returned
\* first and got the file, the one started first got empty contents.
C13_Witness ==
    /\ Len(calls) = 2 /\ Done(1) /\ Done(2)
    /\ calls[1].inst = calls[2].inst
    /\ calls[1].url = calls[2].url
    /\ calls[1].url = <<"/", "dir", "/", "foo", ".sass">>
    /\ calls[2].ret = [kind |-> "file", file |-> calls[2].url]
    /\ calls[1].ret = [kind |-> "contents", file |-> <<>>]
    /\ resolved[calls[1].inst] = <<calls[1].url>>

====
